---- MODULE Spec2Model ----
(***************************************************************************)
(* A model of src/sxhool.py: the connection pool (DatabasePool), the grade *)
(* mapping (calculate_grade), the GPA recomputation (update_student_gpa)   *)
(* and the page handlers that write grades and attendance.                 *)
(*                                                                         *)
(* Grade points and GPAs are kept in hundredths (5.0 is 500, 3.25 is 325), *)
(* so that every value the program stores is an integer here.              *)
(*                                                                         *)
(* The module holds one specification per subsystem; each one leaves the   *)
(* variables of the other subsystems unchanged:                            *)
(*   SpecCalc        calculate_grade applied to the inputs of the form     *)
(*   SpecPool        threads in query / execute, every connect granted     *)
(*   SpecPoolFaults  the same, where sqlite3.connect may raise             *)
(*   SpecGpa         Save Grades and update_student_gpa on the seeded data *)
(*   SpecAtt         teachers in Save Attendance on the seeded data        *)
(*   SpecSetup       the pool from its construction on                     *)
(*   SpecTxn         the pool, where a statement can raise inside its      *)
(*                   transaction                                           *)
(*   SpecInvoke      the call sites of calculate_grade                     *)
(*   SpecPay         sessions in Pay Now on the seeded invoices            *)
(*   SpecRead        the callers of db.query                               *)
(*   SpecPayroll     admin sessions in Generate Payroll and Pay Now        *)
(*   SpecSolo        one fee session and one admin session                 *)
(*   SpecSubmit      sessions of one student in Submit Assignment          *)
(***************************************************************************)
EXTENDS Integers, Sequences, FiniteSets, TLC

VARIABLES
    cgIn,       \* calculate_grade: the last call's <<marks, total>>, <<>> before any call
    cgOut,      \* calculate_grade: the last call's <<letter, point>>, <<>> before any call
    connections,    \* DatabasePool.connections: the free list of handles, last in first out
    handles,        \* the number of handles opened so far; they are numbered 1..handles
    lock,           \* DatabasePool.lock: 0 when free, else the thread holding it
    connectMayFail, \* whether sqlite3.connect can raise in this environment
    pc,             \* per thread: its position inside query / execute
    op,             \* per thread: "query" or "execute", the call it is in or made last
    conn,           \* per thread: the handle it holds, 0 for none
    err,            \* per thread: the exception raised in its call: "", "connect" or "stmt"
    msg,            \* per thread: whether the call reported through st.error
    ret,            \* per thread: the call's result; "-" while there is none
    stmts,          \* per thread: the statements it ran on the handle it acquired last
    inTxn,          \* the handles that have an open (uncommitted) transaction
    peak,           \* the largest number of handles checked out at the same time so far
    setup,          \* setup_database in the constructor: its position, handle and statements
    grades,     \* table grades: per student, its rows in rowid order
    gpa,        \* students.gpa per student, in hundredths
    cgpa,       \* students.cgpa per student, in hundredths
    lastOp,     \* the operation on grades and GPAs that ran last, with what it did
    attendance, \* table attendance: the set of its rows
    attNextId,  \* the id AUTOINCREMENT gives the next attendance row
    attPc,      \* per teacher: 0 outside Save Attendance, else the student whose row is next
    attDate,    \* per teacher: the date of the form being saved, 0 outside Save Attendance
    attLast,    \* the last attendance save that succeeded, [student |-> 0] before any
    running,    \* whether the application process is running
    invoices,   \* table fee_invoices: the status of each invoice
    payments,   \* table payments: the set of its rows
    payPc,      \* per session: its position inside the Pay Now handler
    payReceipt, \* per session: the receipt number it generated, <<>> before that
    payRet,     \* per session: what its last db.execute returned, "-" before any
    rdIn,       \* the last read: its caller, the rows it matches, whether it failed
    rdOut,      \* the last read: what its caller went on to do with the result
    payroll,    \* table payroll: the set of its rows
    gen,        \* per admin session: its position inside Generate Payroll
    submissions,    \* table assignment_submissions: the rows of one student
    subPc       \* per session: 0, or the assignment whose form it has submitted

calcVars == <<cgIn, cgOut>>

poolVars == <<connections, handles, lock, connectMayFail, pc, op, conn, err, msg, ret,
              stmts, inTxn, peak, setup>>

gpaVars == <<grades, gpa, cgpa, lastOp>>

attVars == <<attendance, attNextId, attPc, attDate, attLast>>

payVars == <<running, invoices, payments, payPc, payReceipt, payRet>>

readVars == <<rdIn, rdOut>>

payrollVars == <<payroll, gen>>

subVars == <<submissions, subPc>>

vars == <<cgIn, cgOut, connections, handles, lock, connectMayFail, pc, op, conn,
          err, msg, ret, stmts, inTxn, peak, setup, grades, gpa, cgpa, lastOp,
          attendance, attNextId, attPc, attDate, attLast,
          running, invoices, payments, payPc, payReceipt, payRet, rdIn, rdOut,
          payroll, gen, submissions, subPc>>

\* What the actions of one subsystem leave alone.
notCalc == <<poolVars, gpaVars, attVars, payVars, readVars, payrollVars, subVars>>
notPool == <<calcVars, gpaVars, attVars, payVars, readVars, payrollVars, subVars>>
notGpa == <<calcVars, poolVars, attVars, payVars, readVars, payrollVars, subVars>>
notAtt == <<calcVars, poolVars, gpaVars, payVars, readVars, payrollVars, subVars>>
notPay == <<calcVars, poolVars, gpaVars, attVars, readVars, payrollVars, subVars>>
notRead == <<calcVars, poolVars, gpaVars, attVars, payVars, payrollVars, subVars>>
notPayroll == <<calcVars, poolVars, gpaVars, attVars, payVars, readVars, subVars>>
notSub == <<calcVars, poolVars, gpaVars, attVars, payVars, readVars, payrollVars>>

(***************************************************************************)
(* calculate_grade (src/sxhool.py 303-314)                                 *)
(***************************************************************************)

\* Totals 1..MaxTotal are all drawn; PercentTotal is the total of the
\* percentage scale, where one mark is one percent.
MaxTotal == 20
PercentTotal == 100

Totals == (1..MaxTotal) \cup {PercentTotal}

\* The inputs the grade-entry form can produce: total_marks >= 1 and
\* 0 <= marks <= total_marks (number_input min_value / max_value).
GradeInputs == UNION {{<<m, t>> : m \in 0..t} : t \in Totals}

\* percentage >= th, with percentage = (marks / total) * 100.  For integer
\* marks and total the floating-point quotient times 100 compares with each
\* of the nine thresholds exactly as the rational does, so the comparison
\* is made on integers.
PctAtLeast(marks, total, th) == marks * 100 >= th * total

CalculateGradeStrict(marks, total) ==
    IF marks * 100 > 80 * total THEN <<"A+", 500>>
    ELSE IF PctAtLeast(marks, total, 75) THEN <<"A", 400>>
    ELSE IF PctAtLeast(marks, total, 70) THEN <<"A-", 350>>
    ELSE IF PctAtLeast(marks, total, 65) THEN <<"B+", 325>>
    ELSE IF PctAtLeast(marks, total, 60) THEN <<"B", 300>>
    ELSE IF PctAtLeast(marks, total, 55) THEN <<"B-", 275>>
    ELSE IF PctAtLeast(marks, total, 50) THEN <<"C+", 250>>
    ELSE IF PctAtLeast(marks, total, 45) THEN <<"C", 225>>
    ELSE IF PctAtLeast(marks, total, 40) THEN <<"D", 200>>
    ELSE <<"F", 0>>

CalculateGradeShifted(marks, total) ==
    IF PctAtLeast(marks, total, 80) THEN <<"A+", 500>>
    ELSE IF PctAtLeast(marks, total, 75) THEN <<"A", 400>>
    ELSE IF PctAtLeast(marks, total, 70) THEN <<"A-", 350>>
    ELSE IF PctAtLeast(marks, total, 66) THEN <<"B+", 325>>
    ELSE IF PctAtLeast(marks, total, 60) THEN <<"B", 300>>
    ELSE IF PctAtLeast(marks, total, 55) THEN <<"B-", 275>>
    ELSE IF PctAtLeast(marks, total, 50) THEN <<"C+", 250>>
    ELSE IF PctAtLeast(marks, total, 45) THEN <<"C", 225>>
    ELSE IF PctAtLeast(marks, total, 40) THEN <<"D", 200>>
    ELSE <<"F", 0>>

CalculateGradeSwapped(marks, total) ==
    IF PctAtLeast(marks, total, 80) THEN <<"A+", 500>>
    ELSE IF PctAtLeast(marks, total, 75) THEN <<"A", 400>>
    ELSE IF PctAtLeast(marks, total, 70) THEN <<"A-", 350>>
    ELSE IF PctAtLeast(marks, total, 65) THEN <<"B+", 300>>
    ELSE IF PctAtLeast(marks, total, 60) THEN <<"B", 325>>
    ELSE IF PctAtLeast(marks, total, 55) THEN <<"B-", 275>>
    ELSE IF PctAtLeast(marks, total, 50) THEN <<"C+", 250>>
    ELSE IF PctAtLeast(marks, total, 45) THEN <<"C", 225>>
    ELSE IF PctAtLeast(marks, total, 40) THEN <<"D", 200>>
    ELSE <<"F", 0>>

calculate_grade(marks, total) ==
    IF PctAtLeast(marks, total, 80) THEN <<"A+", 500>>
    ELSE IF PctAtLeast(marks, total, 75) THEN <<"A", 400>>
    ELSE IF PctAtLeast(marks, total, 70) THEN <<"A-", 350>>
    ELSE IF PctAtLeast(marks, total, 65) THEN <<"B+", 325>>
    ELSE IF PctAtLeast(marks, total, 60) THEN <<"B", 300>>
    ELSE IF PctAtLeast(marks, total, 55) THEN <<"B-", 275>>
    ELSE IF PctAtLeast(marks, total, 50) THEN <<"C+", 250>>
    ELSE IF PctAtLeast(marks, total, 45) THEN <<"C", 225>>
    ELSE IF PctAtLeast(marks, total, 40) THEN <<"D", 200>>
    ELSE <<"F", 0>>

(***************************************************************************)
(* Students and their seeded rows (src/sxhool.py 393-436)                  *)
(***************************************************************************)

\* The students of the class a teacher grades.
NumStudents == 2

Students == 1..NumStudents

\* A seeded student's gpa and cgpa: round(3.0 + random.random()*1.5, 2).
SeedGpas == {350}

\* A seeded grade row: marks = random.randint(60, 95) out of 100.
SeedMarks == {60}

\* A row of grades as the seeding and the grade-entry page write it:
\* marks_obtained, total_marks, and the letter and point calculate_grade
\* gives for them.
GradeRow(marks, total) ==
    [marks |-> marks, total |-> total,
     letter |-> calculate_grade(marks, total)[1],
     point |-> calculate_grade(marks, total)[2]]

\* The database after generate_dummy_data, as far as grades go.  Each
\* student got its gpa and cgpa from one draw; each seeded grade row went
\* through db.execute, which swallows a failed insert, so a student holds
\* its seeded row or none.
GpaSeeded ==
    /\ grades \in [Students -> {<<>>} \cup {<<GradeRow(m, PercentTotal)>> : m \in SeedMarks}]
    /\ gpa \in [Students -> SeedGpas]
    /\ cgpa = gpa
    /\ lastOp = [op |-> "seed"]

\* The seeded database with every row in place.
GpaQuiet ==
    /\ GpaSeeded
    /\ \A s \in Students : grades[s] # <<>>

\* The teachers marking attendance; teacher 1 is teacher_ids[0], who
\* recorded the seeded rows.
NumTeachers == 2

Teachers == 1..NumTeachers

\* The dates of the attendance form: date 1 was seeded ("2024-01-01"),
\* date 2 was not (today).
SeedDates == {1}

Dates == SeedDates \cup {2}

\* The statuses drawn for a row, of "Present", "Absent" and "Late".
Statuses == {"Present", "Absent"}

\* The database after generate_dummy_data, as far as attendance goes: one
\* plain INSERT per student and seeded date, by teacher 1, in student
\* order; db.execute swallows a failed insert, which uses up no id.
AttSeeded ==
    /\ \E present \in SUBSET (Students \X SeedDates) :
       \E st \in [Students \X SeedDates -> Statuses] :
          /\ attendance =
                {[id |-> 1 + Cardinality({q \in present :
                                \/ q[1] < k[1]
                                \/ q[1] = k[1] /\ q[2] < k[2]}),
                  student |-> k[1], date |-> k[2],
                  status |-> st[k], recorded_by |-> 1] : k \in present}
          /\ attNextId = Cardinality(present) + 1
    /\ attPc = [t \in Teachers |-> 0]
    /\ attDate = [t \in Teachers |-> 0]
    /\ attLast = [student |-> 0]

\* The seeded attendance with every row in place, all present.
AttQuiet ==
    /\ AttSeeded
    /\ Cardinality(attendance) = Cardinality(Students \X SeedDates)
    /\ \A r \in attendance : r.status = "Present"

\* The browser sessions on a fee page (show_parent_payments or
\* show_student_fees; the two handlers run the same statements).
NumSessions == 2

Sessions == 1..NumSessions

\* The seeded fee invoices: one per student, status 'Unpaid' by default.
Invoices == Students

\* The invoice a session's page lists, that of its student (WHERE
\* student_id = ?): sessions 1 and 2 are the first student and that
\* student's parent, sessions 3 and 4 those of the second, and so on.
InvoiceOf(s) == (s + 1) \div 2

\* The process is up and no payment has been made: the seeding writes
\* the invoices and no payment.
PayQuiet ==
    /\ running = TRUE
    /\ invoices = [i \in Invoices |-> "Unpaid"]
    /\ payments = {}
    /\ payPc = [s \in Sessions |-> "idle"]
    /\ payReceipt = [s \in Sessions |-> <<>>]
    /\ payRet = [s \in Sessions |-> "-"]

\* The staff members: one staff row per seeded teacher.
Staff == Teachers

\* The admin sessions on the payroll page.
NumAdmins == 2

Admins == 1..NumAdmins

\* The payroll after generate_dummy_data: one row per staff member for
\* January 2024 (period "seed"), status 'Pending'; no row for the current
\* month (period "now"), and no session inside Generate Payroll.
PayrollQuiet ==
    /\ payroll = {[id |-> st, staff |-> st, period |-> "seed", status |-> "Pending"] :
                    st \in Staff}
    /\ gen = [a \in Admins |-> [pc |-> "idle", staff |-> 0]]

\* The assignments pending for the student: due, and without a submission.
NumAssignments == 3

Assignments == 1..NumAssignments

\* The student has submitted nothing, and no session is inside Submit.
SubQuiet ==
    /\ submissions = {}
    /\ subPc = [s \in Sessions |-> 0]

\* No read has been made.
ReadIdle ==
    /\ rdIn = <<>>
    /\ rdOut = <<>>

\* No call of calculate_grade has been made.
CalcIdle ==
    /\ cgIn = <<>>
    /\ cgOut = <<>>

(***************************************************************************)
(* DatabasePool (src/sxhool.py 22-50, 261-280)                             *)
(***************************************************************************)

\* pool_size, and the number of request threads sharing the pool: enough
\* for one more acquire while more threads than pool_size hold a handle.
PoolSize == 1
NumThreads == 3

\* The CREATE TABLE statements of setup_database.
NumTables == 16

Threads == 1..NumThreads

\* The elements of a sequence.
Range(seq) == {seq[i] : i \in 1..Len(seq)}

\* No request thread has called the pool yet.
ThreadsIdle ==
    /\ pc = [t \in Threads |-> "idle"]
    /\ op = [t \in Threads |-> "-"]
    /\ conn = [t \in Threads |-> 0]
    /\ err = [t \in Threads |-> ""]
    /\ msg = [t \in Threads |-> FALSE]
    /\ ret = [t \in Threads |-> "-"]
    /\ stmts = [t \in Threads |-> 0]

\* __init__ after _initialize_pool: pool_size handles opened and appended
\* in order, setup_database about to run.
PoolBuilt ==
    /\ connections = [i \in 1..PoolSize |-> i]
    /\ handles = PoolSize
    /\ lock = 0
    /\ ThreadsIdle
    /\ inTxn = {}
    /\ peak = 0
    /\ setup = [pc |-> "acquire", conn |-> 0, stmts |-> 0, raised |-> FALSE]

\* _initialize_pool: pool_size handles opened and appended in order;
\* setup_database then takes one handle and gives it back.
PoolIdle ==
    /\ connections = [i \in 1..PoolSize |-> i]
    /\ handles = PoolSize
    /\ lock = 0
    /\ ThreadsIdle
    /\ inTxn = {}
    /\ peak = 1
    /\ setup = [pc |-> "done", conn |-> 0, stmts |-> NumTables, raised |-> FALSE]

\* setup_database enters "with self.get_connection() as conn": it takes the
\* last free handle, or opens one when there is none.  The constructor runs
\* before any request thread has the pool, so nothing contends for the
\* mutex it takes and frees here.
SetupAcquire ==
    /\ setup.pc = "acquire"
    /\ lock = 0
    /\ IF connections = <<>>
       THEN /\ handles' = handles + 1
            /\ setup' = [setup EXCEPT !.pc = "ddl", !.conn = handles + 1]
            /\ UNCHANGED connections
       ELSE /\ setup' = [setup EXCEPT !.pc = "ddl", !.conn = connections[Len(connections)]]
            /\ connections' = SubSeq(connections, 1, Len(connections) - 1)
            /\ UNCHANGED handles
    /\ peak' = IF peak < 1 THEN 1 ELSE peak
    /\ UNCHANGED <<lock, connectMayFail, pc, op, conn, err, msg, ret, stmts, inTxn>>
    /\ UNCHANGED notPool

\* setup_database: the next c.execute("CREATE TABLE IF NOT EXISTS ...") on
\* the same cursor; an exception leaves the with block.
SetupStatement ==
    /\ setup.pc = "ddl"
    /\ setup.stmts < NumTables
    /\ \/ setup' = [setup EXCEPT !.stmts = setup.stmts + 1]
       \/ setup' = [setup EXCEPT !.stmts = setup.stmts + 1,
                                 !.pc = "release", !.raised = TRUE]
    /\ UNCHANGED <<connections, handles, lock, connectMayFail, pc, op, conn, err,
                   msg, ret, stmts, inTxn, peak>>
    /\ UNCHANGED notPool

\* setup_database: conn.commit() after the last CREATE TABLE.
SetupCommit ==
    /\ setup.pc = "ddl"
    /\ setup.stmts = NumTables
    /\ \/ setup' = [setup EXCEPT !.pc = "release"]
       \/ setup' = [setup EXCEPT !.pc = "release", !.raised = TRUE]
    /\ UNCHANGED <<connections, handles, lock, connectMayFail, pc, op, conn, err,
                   msg, ret, stmts, inTxn, peak>>
    /\ UNCHANGED notPool

\* get_connection's finally clause for setup_database: the handle goes
\* back to the free list; an exception then leaves the constructor, and
\* the application has no pool.
SetupRelease ==
    /\ setup.pc = "release"
    /\ lock = 0
    /\ connections' = Append(connections, setup.conn)
    /\ setup' = [setup EXCEPT !.pc = IF setup.raised THEN "raised" ELSE "done",
                              !.conn = 0]
    /\ UNCHANGED <<handles, lock, connectMayFail, pc, op, conn, err, msg, ret,
                   stmts, inTxn, peak>>
    /\ UNCHANGED notPool

\* The function a thread calls: the odd threads read through db.query, the
\* others write through db.execute.  get_connection does not look at its
\* caller, so the pool sees the same steps whichever function a thread runs.
OpOf(t) == IF t % 2 = 1 THEN "query" ELSE "execute"

\* A thread enters db.query(sql, params) or db.execute(sql, params).
Call(t) ==
    /\ setup.pc = "done"
    /\ pc[t] = "idle"
    /\ op' = [op EXCEPT ![t] = OpOf(t)]
    /\ pc' = [pc EXCEPT ![t] = "acquire"]
    /\ err' = [err EXCEPT ![t] = ""]
    /\ msg' = [msg EXCEPT ![t] = FALSE]
    /\ ret' = [ret EXCEPT ![t] = "-"]
    /\ stmts' = [stmts EXCEPT ![t] = 0]
    /\ UNCHANGED <<connections, handles, lock, connectMayFail, conn>>
    /\ UNCHANGED <<inTxn, peak, setup>>
    /\ UNCHANGED notPool

\* An entry into the critical section that does not wait for the mutex.
LockAcquireNoWait(t) ==
    /\ pc[t] = "acquire"
    /\ lock' = t
    /\ pc' = [pc EXCEPT ![t] = "get"]
    /\ UNCHANGED <<connections, handles, connectMayFail, op, conn, err, msg, ret>>
    /\ UNCHANGED <<stmts, inTxn, peak, setup>>
    /\ UNCHANGED notPool

\* get_connection, "with self.lock:" on entry: wait for the mutex.
LockAcquire(t) ==
    /\ pc[t] = "acquire"
    /\ lock = 0
    /\ lock' = t
    /\ pc' = [pc EXCEPT ![t] = "get"]
    /\ UNCHANGED <<connections, handles, connectMayFail, op, conn, err, msg, ret>>
    /\ UNCHANGED <<stmts, inTxn, peak, setup>>
    /\ UNCHANGED notPool

\* A pool that waits for a release instead of opening a handle.
GetConnBlocking(t) ==
    /\ pc[t] = "get"
    /\ connections # <<>>
    /\ conn' = [conn EXCEPT ![t] = connections[Len(connections)]]
    /\ connections' = SubSeq(connections, 1, Len(connections) - 1)
    /\ pc' = [pc EXCEPT ![t] = "stmt"]
    /\ lock' = 0
    /\ UNCHANGED <<handles, connectMayFail, op, err, msg, ret>>
    /\ peak' = IF Cardinality({u \in Threads : conn'[u] # 0}) > peak
               THEN Cardinality({u \in Threads : conn'[u] # 0}) ELSE peak
    /\ UNCHANGED <<stmts, inTxn, setup>>
    /\ UNCHANGED notPool

\* An acquire that opens a new handle whether or not one is free.
GetConnAlwaysNew(t) ==
    /\ pc[t] = "get"
    /\ handles' = handles + 1
    /\ conn' = [conn EXCEPT ![t] = handles + 1]
    /\ pc' = [pc EXCEPT ![t] = "stmt"]
    /\ lock' = 0
    /\ UNCHANGED <<connections, connectMayFail, op, err, msg, ret>>
    /\ peak' = IF Cardinality({u \in Threads : conn'[u] # 0}) > peak
               THEN Cardinality({u \in Threads : conn'[u] # 0}) ELSE peak
    /\ UNCHANGED <<stmts, inTxn, setup>>
    /\ UNCHANGED notPool

\* get_connection, inside the mutex: pop the last free handle, or open a
\* new one when the free list is empty; sqlite3.connect may raise, and the
\* exception leaves get_connection before its try block.  Leaving the with
\* block frees the mutex.
GetConn(t) ==
    /\ pc[t] = "get"
    /\ \/ /\ connections = <<>>
          /\ handles' = handles + 1
          /\ conn' = [conn EXCEPT ![t] = handles + 1]
          /\ pc' = [pc EXCEPT ![t] = "stmt"]
          /\ UNCHANGED <<connections, err>>
       \/ /\ connections = <<>>
          /\ connectMayFail
          /\ err' = [err EXCEPT ![t] = "connect"]
          /\ pc' = [pc EXCEPT ![t] = "except"]
          /\ UNCHANGED <<connections, handles, conn>>
       \/ /\ connections # <<>>
          /\ conn' = [conn EXCEPT ![t] = connections[Len(connections)]]
          /\ connections' = SubSeq(connections, 1, Len(connections) - 1)
          /\ pc' = [pc EXCEPT ![t] = "stmt"]
          /\ UNCHANGED <<handles, err>>
    /\ lock' = 0
    /\ UNCHANGED <<connectMayFail, op, msg, ret>>
    /\ peak' = IF Cardinality({u \in Threads : conn'[u] # 0}) > peak
               THEN Cardinality({u \in Threads : conn'[u] # 0}) ELSE peak
    /\ UNCHANGED <<stmts, inTxn, setup>>
    /\ UNCHANGED notPool

\* The body of the with block: cursor, execute, and fetchall (query) or
\* commit and lastrowid (execute).  Any of them may raise; either way the
\* finally clause of get_connection runs next.
\* A with block that runs a second statement on the handle it holds.
StatementRepeated(t) ==
    /\ pc[t] = "stmt"
    /\ ret' = [ret EXCEPT ![t] = IF op[t] = "query" THEN "rows" ELSE "lastrowid"]
    /\ inTxn' = IF op[t] = "execute" THEN inTxn \ {conn[t]} ELSE inTxn
    /\ stmts' = [stmts EXCEPT ![t] = stmts[t] + 1]
    /\ pc' = [pc EXCEPT ![t] = IF stmts[t] = 0 THEN "stmt" ELSE "release"]
    /\ UNCHANGED <<connections, handles, lock, connectMayFail, op, conn, err, msg,
                   peak, setup>>
    /\ UNCHANGED notPool

\* The handle's transaction: sqlite3 opens one implicitly before an INSERT,
\* UPDATE or DELETE and keeps it until conn.commit(); a SELECT opens none.
\* A statement that raises here raises before that implicit BEGIN (it
\* cannot be prepared) and leaves the handle as it was.
Statement(t) ==
    /\ pc[t] = "stmt"
    /\ \/ /\ ret' = [ret EXCEPT ![t] = IF op[t] = "query" THEN "rows" ELSE "lastrowid"]
          /\ inTxn' = IF op[t] = "execute" THEN inTxn \ {conn[t]} ELSE inTxn
          /\ UNCHANGED err
       \/ /\ err' = [err EXCEPT ![t] = "stmt"]
          /\ UNCHANGED <<ret, inTxn>>
    /\ stmts' = [stmts EXCEPT ![t] = stmts[t] + 1]
    /\ pc' = [pc EXCEPT ![t] = "release"]
    /\ UNCHANGED <<connections, handles, lock, connectMayFail, op, conn, msg, peak, setup>>
    /\ UNCHANGED notPool

\* The body of execute's with block when c.execute raises after the
\* implicit BEGIN (a constraint is violated, the database is locked) or
\* conn.commit() raises: the except clause of execute does not roll back,
\* so the handle keeps its open transaction.
StatementInTxn(t) ==
    /\ pc[t] = "stmt"
    /\ op[t] = "execute"
    /\ err' = [err EXCEPT ![t] = "stmt"]
    /\ inTxn' = inTxn \cup {conn[t]}
    /\ stmts' = [stmts EXCEPT ![t] = stmts[t] + 1]
    /\ pc' = [pc EXCEPT ![t] = "release"]
    /\ UNCHANGED <<connections, handles, lock, connectMayFail, op, conn, msg, ret,
                   peak, setup>>
    /\ UNCHANGED notPool

\* get_connection, "finally: with self.lock:": wait for the mutex.
LockRelease(t) ==
    /\ pc[t] = "release"
    /\ lock = 0
    /\ lock' = t
    /\ pc' = [pc EXCEPT ![t] = "put"]
    /\ UNCHANGED <<connections, handles, connectMayFail, op, conn, err, msg, ret>>
    /\ UNCHANGED <<stmts, inTxn, peak, setup>>
    /\ UNCHANGED notPool

\* A release that is skipped when the statement raised.
PutConnNoFinally(t) ==
    /\ pc[t] = "put"
    /\ connections' = IF err[t] = "" THEN Append(connections, conn[t]) ELSE connections
    /\ conn' = [conn EXCEPT ![t] = 0]
    /\ lock' = 0
    /\ pc' = [pc EXCEPT ![t] = IF err[t] = "" THEN "return" ELSE "except"]
    /\ UNCHANGED <<handles, connectMayFail, op, err, msg, ret>>
    /\ UNCHANGED <<stmts, inTxn, peak, setup>>
    /\ UNCHANGED notPool

\* get_connection, inside the mutex of the finally clause: append the
\* handle to the free list.  A raised exception then goes on to the except
\* clause of query / execute.
PutConn(t) ==
    /\ pc[t] = "put"
    /\ connections' = Append(connections, conn[t])
    /\ conn' = [conn EXCEPT ![t] = 0]
    /\ lock' = 0
    /\ pc' = [pc EXCEPT ![t] = IF err[t] = "" THEN "return" ELSE "except"]
    /\ UNCHANGED <<handles, connectMayFail, op, err, msg, ret>>
    /\ UNCHANGED <<stmts, inTxn, peak, setup>>
    /\ UNCHANGED notPool

\* An except clause that catches only the statement's own error class.
ExceptNarrow(t) ==
    /\ pc[t] = "except"
    /\ msg' = [msg EXCEPT ![t] = err[t] = "stmt"]
    /\ ret' = [ret EXCEPT ![t] = IF err[t] # "stmt" THEN "raised"
                                 ELSE IF op[t] = "query" THEN "[]" ELSE "None"]
    /\ pc' = [pc EXCEPT ![t] = "idle"]
    /\ UNCHANGED <<connections, handles, lock, connectMayFail, op, conn, err>>
    /\ UNCHANGED <<stmts, inTxn, peak, setup>>
    /\ UNCHANGED notPool

\* "except Exception as e": st.error(...), then return [] (query) or
\* None (execute).
Except(t) ==
    /\ pc[t] = "except"
    /\ msg' = [msg EXCEPT ![t] = TRUE]
    /\ ret' = [ret EXCEPT ![t] = IF op[t] = "query" THEN "[]" ELSE "None"]
    /\ pc' = [pc EXCEPT ![t] = "idle"]
    /\ UNCHANGED <<connections, handles, lock, connectMayFail, op, conn, err>>
    /\ UNCHANGED <<stmts, inTxn, peak, setup>>
    /\ UNCHANGED notPool

\* The return statement inside the with block completes with its value.
Return(t) ==
    /\ pc[t] = "return"
    /\ pc' = [pc EXCEPT ![t] = "idle"]
    /\ UNCHANGED <<connections, handles, lock, connectMayFail, op, conn, err, msg, ret>>
    /\ UNCHANGED <<stmts, inTxn, peak, setup>>
    /\ UNCHANGED notPool

\* One step of thread t.
Step(t) ==
    \/ Call(t)
    \/ LockAcquire(t)
    \/ GetConn(t)
    \/ Statement(t)
    \/ LockRelease(t)
    \/ PutConn(t)
    \/ Except(t)
    \/ Return(t)

PoolNext ==
    \/ \E t \in Threads : Call(t)
    \/ \E t \in Threads : LockAcquire(t)
    \/ \E t \in Threads : GetConn(t)
    \/ \E t \in Threads : Statement(t)
    \/ \E t \in Threads : LockRelease(t)
    \/ \E t \in Threads : PutConn(t)
    \/ \E t \in Threads : Except(t)
    \/ \E t \in Threads : Return(t)

\* The environment always grants a new connection.
PoolInit ==
    /\ CalcIdle
    /\ PoolIdle
    /\ connectMayFail = FALSE
    /\ GpaQuiet
    /\ AttQuiet
    /\ PayQuiet
    /\ ReadIdle
    /\ PayrollQuiet
    /\ SubQuiet

\* Opening a connection can fail.
PoolFaultsInit ==
    /\ CalcIdle
    /\ PoolIdle
    /\ connectMayFail = TRUE
    /\ GpaQuiet
    /\ AttQuiet
    /\ PayQuiet
    /\ ReadIdle
    /\ PayrollQuiet
    /\ SubQuiet

SpecPool == PoolInit /\ [][PoolNext]_vars

SpecPoolFaults == PoolFaultsInit /\ [][PoolNext]_vars

\* The constructor from setup_database on, then the request threads.
SetupInit ==
    /\ CalcIdle
    /\ PoolBuilt
    /\ connectMayFail = TRUE
    /\ GpaQuiet
    /\ AttQuiet
    /\ PayQuiet
    /\ ReadIdle
    /\ PayrollQuiet
    /\ SubQuiet

SetupNext ==
    \/ SetupAcquire
    \/ SetupStatement
    \/ SetupCommit
    \/ SetupRelease
    \/ PoolNext

SpecSetup == SetupInit /\ [][SetupNext]_vars

\* The request threads where a write can also fail inside its transaction.
TxnNext ==
    \/ PoolNext
    \/ \E t \in Threads : StatementInTxn(t)

SpecTxn == PoolInit /\ [][TxnNext]_vars

(***************************************************************************)
(* Claims about the connection pool                                        *)
(***************************************************************************)

\* The threads that hold a handle.
Holders == {t \in Threads : conn[t] # 0}

C6_ReleasedOnReturn ==
    /\ \A t \in Threads :
        pc[t] \in {"idle", "acquire", "get", "except", "return"} => conn[t] = 0
    /\ \A h \in 1..handles :
        \/ h \in Range(connections)
        \/ \E t \in Threads : conn[t] = h /\ pc[t] \in {"stmt", "release", "put"}
    /\ Holders = {} => (Len(connections) = handles /\ Len(connections) >= PoolSize)

\* A call whose statement raised has returned and the free list is whole.
C6_Witness ==
    /\ \E t \in Threads : pc[t] = "idle" /\ err[t] = "stmt" /\ ret[t] \in {"[]", "None"}
    /\ Holders = {}
    /\ Len(connections) >= PoolSize

\* C7: no error raised while acquiring a handle or running the statement
\* escapes query or execute: a call that met an error has reported it
\* through st.error and returns [] (query) or None (execute).
C7_NoEscape ==
    \A t \in Threads :
        /\ ret[t] # "raised"
        /\ (pc[t] = "idle" /\ err[t] # "") =>
            /\ msg[t]
            /\ ret[t] = (IF op[t] = "query" THEN "[]" ELSE "None")

\* An execute whose acquisition failed has returned None, and a query whose
\* statement failed has returned [].
C7_Witness ==
    /\ \E t \in Threads :
        pc[t] = "idle" /\ err[t] = "connect" /\ op[t] = "execute" /\ ret[t] = "None"
    /\ \E t \in Threads :
        pc[t] = "idle" /\ err[t] = "stmt" /\ op[t] = "query" /\ ret[t] = "[]"

\* C12: in every interleaving of query / execute calls no handle is held
\* by two threads at once, no handle is twice in the free list, no handle
\* is both free and held, and the free list is popped and pushed only by
\* the thread that holds the pool mutex, inside get_connection.
C12_MutualExclusion ==
    /\ [](/\ \A t, u \in Holders : conn[t] = conn[u] => t = u
          /\ \A i, j \in 1..Len(connections) : connections[i] = connections[j] => i = j
          /\ \A t \in Holders : conn[t] \notin Range(connections))
    /\ [][connections' # connections =>
            /\ lock # 0
            /\ pc[lock] \in {"get", "put"}
            /\ \A t \in Threads \ {lock} : conn'[t] = conn[t]]_vars

\* Every thread holds a handle of its own, and one of them is inside the
\* mutex about to push its handle onto the free list.
C12_Witness ==
    /\ Holders = Threads
    /\ \A t, u \in Threads : conn[t] = conn[u] => t = u
    /\ lock # 0 /\ pc[lock] = "put"
    /\ \E t \in Threads : pc[t] = "stmt"

\* The handles checked out: held by a request thread or by setup_database.
CheckedOut == Cardinality(Holders) + (IF setup.conn # 0 THEN 1 ELSE 0)

\* C13: an acquire opens a new handle only when the free list is empty and
\* otherwise pops the last free one; no handle is ever closed, so the
\* handles in existence, free plus checked out, never decrease, are never
\* fewer than pool_size and never more than the larger of pool_size and
\* the largest number of handles checked out at the same time so far.
C13_HandleCount ==
    /\ [](/\ handles = Len(connections) + CheckedOut
          /\ handles >= PoolSize
          /\ handles <= (IF peak > PoolSize THEN peak ELSE PoolSize))
    /\ [][/\ handles' >= handles
          /\ handles' # handles => (connections = <<>> /\ handles' = handles + 1)
          /\ \A t \in Threads : (conn[t] = 0 /\ conn'[t] # 0) =>
               IF connections = <<>>
               THEN conn'[t] = handles + 1 /\ handles' = handles + 1
               ELSE /\ conn'[t] = connections[Len(connections)]
                    /\ connections' = SubSeq(connections, 1, Len(connections) - 1)
                    /\ handles' = handles]_vars

\* The pool has grown by two handles beyond pool_size, as many as were
\* checked out at once, and with every call returned they are all free.
C13_Witness ==
    /\ handles = PoolSize + 2
    /\ peak = handles
    /\ Holders = {}
    /\ Len(connections) = handles
    /\ \E t \in Threads : ret[t] \in {"rows", "lastrowid"}

\* C14 as stated: every acquisition of a handle, that of setup_database
\* included, has run one and only one statement when it releases.
C14_OneStatementPerAcquire ==
    /\ \A t \in Threads : pc[t] \in {"release", "put"} => stmts[t] = 1
    /\ setup.pc = "release" => setup.stmts = 1

\* C14, amended: every acquisition made by query or execute runs one and
\* only one statement on its handle and then releases it; the one
\* acquisition of setup_database runs all its CREATE TABLE statements
\* before it releases.
C14_OneStatementPerCall ==
    /\ \A t \in Threads :
        /\ pc[t] = "stmt" => (stmts[t] = 0 /\ conn[t] # 0)
        /\ pc[t] \in {"release", "put"} => (stmts[t] = 1 /\ conn[t] # 0)
        /\ pc[t] \in {"idle", "return"} =>
            (conn[t] = 0 /\ (ret[t] \in {"rows", "lastrowid"} => stmts[t] = 1))
    /\ (setup.pc = "release" /\ ~setup.raised) => setup.stmts = NumTables
    /\ setup.pc \in {"done", "raised"} => setup.conn = 0
    /\ setup.pc = "done" => setup.stmts = NumTables

\* setup_database has released its handle after all its statements, one
\* call is about to release after a statement that raised, and another has
\* returned the rows of its one statement.
C14_Witness ==
    /\ setup.pc = "done" /\ setup.stmts = NumTables
    /\ \E t \in Threads : pc[t] = "release" /\ stmts[t] = 1 /\ err[t] = "stmt"
    /\ \E t \in Threads : pc[t] = "idle" /\ stmts[t] = 1 /\ ret[t] = "rows"

\* C19: a handle in the free list has no open transaction, after an
\* execute whose statement succeeded and after one whose statement raised.
C19_NoOpenTxnInFreeList ==
    \A h \in Range(connections) : h \notin inTxn

\* The settings of the handles _initialize_pool opens: it runs PRAGMA
\* journal_mode=WAL and PRAGMA synchronous=NORMAL on each.
PoolConfig == [journal_mode |-> "wal", synchronous |-> "NORMAL"]

\* The settings of handle h.  Handles 1..pool_size are the ones
\* _initialize_pool opened; a later one was opened by get_connection, which
\* runs no PRAGMA on it: the journal mode is that of the database file,
\* WAL since the first handle set it, and synchronous is sqlite's default.
HandleConfig(h) ==
    IF h <= PoolSize THEN PoolConfig
    ELSE [journal_mode |-> "wal", synchronous |-> "FULL"]

\* C29: every handle the pool hands out carries the configuration of the
\* pre-allocated ones (journal mode WAL and synchronous=NORMAL), also a
\* handle allocated on the spot when the free list was empty.
C29_HandedOutConfigured ==
    \A t \in Threads : conn[t] # 0 => HandleConfig(conn[t]) = PoolConfig

(***************************************************************************)
(* calculate_grade applied to the inputs of the grade-entry form           *)
(***************************************************************************)

CalcInit ==
    /\ CalcIdle
    /\ PoolIdle
    /\ connectMayFail = FALSE
    /\ GpaQuiet
    /\ AttQuiet
    /\ PayQuiet
    /\ ReadIdle
    /\ PayrollQuiet
    /\ SubQuiet

\* One call of calculate_grade on an input of the form.
CalcCall ==
    \E in \in GradeInputs :
        /\ cgIn' = in
        /\ cgOut' = calculate_grade(in[1], in[2])
        /\ UNCHANGED notCalc

CalcNext == CalcCall

SpecCalc == CalcInit /\ [][CalcNext]_vars

(***************************************************************************)
(* Claims about calculate_grade                                            *)
(***************************************************************************)

\* The threshold table of the grade engine, top row first:
\* <<inclusive lower bound in percent, letter, point>>; below the last row
\* the grade is F with point 0.
GradeTable ==
    << <<80, "A+", 500>>, <<75, "A", 400>>, <<70, "A-", 350>>,
       <<65, "B+", 325>>, <<60, "B", 300>>, <<55, "B-", 275>>,
       <<50, "C+", 250>>, <<45, "C", 225>>, <<40, "D", 200>> >>

FailGrade == <<"F", 0>>

\* The rows whose lower bound is at most marks/total*100.
MatchingRows(marks, total) ==
    {i \in 1..Len(GradeTable) : GradeTable[i][1] * total <= marks * 100}

\* The grade of the first matching row, read top-down.
TableGrade(marks, total) ==
    IF MatchingRows(marks, total) = {} THEN FailGrade
    ELSE LET i == CHOOSE r \in MatchingRows(marks, total) :
                      \A q \in MatchingRows(marks, total) : r <= q
         IN  <<GradeTable[i][2], GradeTable[i][3]>>

\* The grade of table row i, and F past the last row.
RowGrade(i) ==
    IF i \in 1..Len(GradeTable) THEN <<GradeTable[i][2], GradeTable[i][3]>>
    ELSE FailGrade

\* C1: for total > 0 and 0 < marks <= total, calculate_grade returns the
\* letter and point of the first row of the threshold table whose inclusive
\* lower bound is at most the percentage, and (F, 0.0) when no row matches.
C1_TableConsistent ==
    (cgIn # <<>> /\ cgIn[2] > 0 /\ 0 < cgIn[1] /\ cgIn[1] <= cgIn[2])
        => cgOut = TableGrade(cgIn[1], cgIn[2])

\* A call exactly on the B+ threshold with a total other than 100.
C1_Witness == cgIn = <<13, 20>> /\ cgOut = <<"B+", 325>>

\* C2: the grade point is monotonic non-decreasing in the percentage: an
\* input whose percentage is at least that of the last call gets a grade
\* point at least that of the last call.
C2_Monotonic ==
    cgIn # <<>> =>
        \A in2 \in GradeInputs :
            (cgIn[1] * in2[2] <= in2[1] * cgIn[2])
                => cgOut[2] <= calculate_grade(in2[1], in2[2])[2]

\* A call at 60 percent through a total of 5: inputs of other totals lie
\* below, at and above it.
C2_Witness == cgIn = <<3, 5>> /\ cgOut[2] = 300

\* C3: thresholds are inclusive lower bounds and zero marks is valid: out
\* of 100, marks equal to a row's bound get that row's grade, one mark less
\* gets the next lower grade; (80,100) is (A+, 5.0), (79,100) is (A, 4.0),
\* (39,100) is (F, 0.0) and (0,100) is (F, 0.0).
C3_Boundaries ==
    /\ cgIn = <<80, 100>> => cgOut = <<"A+", 500>>
    /\ cgIn = <<79, 100>> => cgOut = <<"A", 400>>
    /\ cgIn = <<39, 100>> => cgOut = <<"F", 0>>
    /\ cgIn = <<0, 100>> => cgOut = <<"F", 0>>
    /\ \A i \in 1..Len(GradeTable) :
        /\ cgIn = <<GradeTable[i][1], 100>> => cgOut = RowGrade(i)
        /\ cgIn = <<GradeTable[i][1] - 1, 100>> => cgOut = RowGrade(i + 1)

\* The call one mark below the top threshold.
C3_Witness == cgIn = <<79, 100>> /\ cgOut = <<"A", 400>>

(***************************************************************************)
(* The invocations of calculate_grade (src/sxhool.py 429-431, 1110-1138)   *)
(***************************************************************************)

\* What a user can type into a number field of the grade-entry form.
Typed == (-1..MaxTotal) \cup {PercentTotal}

\* marks = random.randint(60, 95) in the seeding: the two ends of the range.
SeedMarkRange == {60, 95}

\* A number field that lets any typed value through.
NumberInputUnchecked(typed, value, min_value, max_value) == typed

\* st.number_input(value=, min_value=, max_value=): the field gives the
\* typed value when it lies within its bounds, and otherwise stays at its
\* value= default.  max_value is <<n>>, or <<>> for a field without one.
number_input(typed, value, min_value, max_value) ==
    IF typed >= min_value /\ (max_value = <<>> \/ typed <= max_value[1])
    THEN typed ELSE value

\* generate_dummy_data: calculate_grade(marks, 100) for each seeded row.
SeedGradeCall ==
    \E marks \in SeedMarkRange :
        /\ cgIn' = <<marks, PercentTotal>>
        /\ cgOut' = calculate_grade(marks, PercentTotal)
        /\ UNCHANGED notCalc

\* show_faculty_grading, "Save Grades": total_marks comes from the field
\* with min_value=1, each student's marks from a field with min_value=0 and
\* max_value=total_marks, and calculate_grade gets the two.
FormGradeCall ==
    \E typedTotal \in Typed, typedMarks \in Typed :
        LET total_marks == number_input(typedTotal, PercentTotal, 1, <<>>)
            marks == number_input(typedMarks, 0, 0, <<total_marks>>)
        IN  /\ cgIn' = <<marks, total_marks>>
            /\ cgOut' = calculate_grade(marks, total_marks)
            /\ UNCHANGED notCalc

InvokeNext == SeedGradeCall \/ FormGradeCall

SpecInvoke == CalcInit /\ [][InvokeNext]_vars

\* C21: every invocation of calculate_grade the application makes (the
\* seeding and the grade entry) passes total > 0 and 0 <= marks <= total,
\* so the division by total never divides by zero.
C21_TotalGuarded ==
    cgIn # <<>> => (cgIn[2] > 0 /\ 0 <= cgIn[1] /\ cgIn[1] <= cgIn[2])

\* A call at the boundary the form's minimum leaves: full marks out of a
\* total of 1.
C21_Witness == cgIn = <<1, 1>> /\ cgOut = <<"A+", 500>>

(***************************************************************************)
(* Grade entry and update_student_gpa (src/sxhool.py 322-332, 1083-1145)   *)
(***************************************************************************)

\* The most rows the grades table gets.
MaxGradeRows == 4

RECURSIVE CountRows(_)
\* The number of rows of grades of the students in ss.
CountRows(ss) ==
    IF ss = {} THEN 0
    ELSE LET s == CHOOSE x \in ss : TRUE
         IN  Len(grades[s]) + CountRows(ss \ {s})

\* The marks a teacher types, out of the form's default total of 100.
EntryMarks == {0, 65}

RECURSIVE SumPoints(_)
\* The sum of grade_point over a student's rows.
SumPoints(rows) ==
    IF rows = <<>> THEN 0 ELSE rows[1].point + SumPoints(Tail(rows))

\* SELECT AVG(grade_point): NULL over no rows, else the quotient sum/count,
\* kept as <<sum, count>>.
AvgGp(rows) == IF rows = <<>> THEN "NULL" ELSE <<SumPoints(rows), Len(rows)>>

\* Python's truth value of grades[0]['avg_gp']: None and 0.0 are false.
Truthy(avg) == avg # "NULL" /\ avg[1] # 0

\* round(avg, 2) in hundredths: to the nearest, and a tie to the even
\* hundredth (the ties of these quotients are exact binary floats).
Round2(avg) ==
    LET q == avg[1] \div avg[2]
        r == avg[1] % avg[2]
    IN  IF 2 * r < avg[2] THEN q
        ELSE IF 2 * r > avg[2] THEN q + 1
        ELSE IF q % 2 = 0 THEN q ELSE q + 1

\* A recomputation that stores 0 when it has no average to store.
UpdateStudentGpaPlaceholder(s) ==
    \E outcome \in {"ok", "read_failed", "write_failed"} :
        LET result == IF outcome # "read_failed" THEN <<AvgGp(grades[s])>> ELSE <<>>
            write == result # <<>> /\ Truthy(result[1])
            new == IF write THEN Round2(result[1]) ELSE 0
        IN  /\ outcome = "write_failed" => write
            /\ gpa' = IF outcome # "write_failed" THEN [gpa EXCEPT ![s] = new] ELSE gpa
            /\ cgpa' = IF outcome # "write_failed" THEN [cgpa EXCEPT ![s] = new] ELSE cgpa
            /\ lastOp' = [op |-> "update_student_gpa", student |-> s,
                          outcome |-> outcome]
            /\ UNCHANGED grades
            /\ UNCHANGED notGpa

\* A recomputation whose UPDATE sets gpa and leaves cgpa.
UpdateStudentGpaOnly(s) ==
    \E outcome \in {"ok", "read_failed", "write_failed"} :
        LET result == IF outcome # "read_failed" THEN <<AvgGp(grades[s])>> ELSE <<>>
            write == result # <<>> /\ Truthy(result[1])
        IN  /\ outcome = "write_failed" => write
            /\ gpa' = IF write /\ outcome = "ok"
                      THEN [gpa EXCEPT ![s] = Round2(result[1])] ELSE gpa
            /\ lastOp' = [op |-> "update_student_gpa", student |-> s,
                          outcome |-> outcome]
            /\ UNCHANGED <<grades, cgpa>>
            /\ UNCHANGED notGpa

\* update_student_gpa(student_id): db.query reads the average ([] when the
\* read failed); if the result is non-empty and the average is truthy,
\* db.execute writes round(avg, 2) to gpa and cgpa (nothing when the write
\* failed).
UpdateStudentGpa(s) ==
    \E outcome \in {"ok", "read_failed", "write_failed"} :
        LET result == IF outcome # "read_failed" THEN <<AvgGp(grades[s])>> ELSE <<>>
            write == result # <<>> /\ Truthy(result[1])
        IN  /\ outcome = "write_failed" => write
            /\ gpa' = IF write /\ outcome = "ok"
                      THEN [gpa EXCEPT ![s] = Round2(result[1])] ELSE gpa
            /\ cgpa' = IF write /\ outcome = "ok"
                       THEN [cgpa EXCEPT ![s] = Round2(result[1])] ELSE cgpa
            /\ lastOp' = [op |-> "update_student_gpa", student |-> s,
                          outcome |-> outcome]
            /\ UNCHANGED grades
            /\ UNCHANGED notGpa

\* A grade entry that recomputes the stored GPA of each student it wrote a
\* row for, in the same step.
SaveGradesRecomputing ==
    \E inserted \in SUBSET Students :
    \E marks \in [inserted -> EntryMarks] :
        LET after == [s \in Students |->
                        IF s \in inserted
                        THEN Append(grades[s], GradeRow(marks[s], PercentTotal))
                        ELSE grades[s]]
            mean == [s \in Students |->
                        IF s \in inserted THEN Round2(AvgGp(after[s])) ELSE gpa[s]]
        IN  /\ CountRows(Students) + NumStudents <= MaxGradeRows
            /\ grades' = after
            /\ gpa' = mean
            /\ cgpa' = [s \in Students |-> IF s \in inserted THEN mean[s] ELSE cgpa[s]]
            /\ lastOp' = [op |-> "save_grades",
                          inserted |-> inserted,
                          recomputed |-> inserted]
            /\ UNCHANGED notGpa

\* show_faculty_grading, "Save Grades": for every student of the class,
\* calculate_grade on the typed marks and one INSERT INTO grades through
\* db.execute, which may fail for any row ("inserted" are the students
\* whose row went in); then st.success.  The handler makes no other call:
\* "recomputed" lists the students it invoked update_student_gpa for.
SaveGrades ==
    \E inserted \in SUBSET Students :
    \E marks \in [inserted -> EntryMarks] :
        /\ CountRows(Students) + NumStudents <= MaxGradeRows
        /\ grades' = [s \in Students |->
                        IF s \in inserted
                        THEN Append(grades[s], GradeRow(marks[s], PercentTotal))
                        ELSE grades[s]]
        /\ lastOp' = [op |-> "save_grades",
                      inserted |-> inserted,
                      recomputed |-> {}]
        /\ UNCHANGED <<gpa, cgpa>>
        /\ UNCHANGED notGpa

GpaInit ==
    /\ CalcIdle
    /\ PoolIdle
    /\ connectMayFail = FALSE
    /\ GpaSeeded
    /\ AttQuiet
    /\ PayQuiet
    /\ ReadIdle
    /\ PayrollQuiet
    /\ SubQuiet

GpaNext ==
    \/ \E s \in Students : UpdateStudentGpa(s)
    \/ SaveGrades

SpecGpa == GpaInit /\ [][GpaNext]_vars

(***************************************************************************)
(* Claims about grade entry and GPA recomputation                          *)
(***************************************************************************)

\* C4: for a student with at least one grade record, after
\* update_student_gpa has completed (no statement of it failing) the stored
\* gpa is the mean of grade_point over all its rows, rounded to two
\* decimals, also when every recorded grade point is 0.0.
C4_GpaIsMean ==
    (/\ lastOp.op = "update_student_gpa"
     /\ lastOp.outcome = "ok"
     /\ grades[lastOp.student] # <<>>)
        => gpa[lastOp.student] = Round2(AvgGp(grades[lastOp.student]))

C11_GpaOnlyByRecompute ==
    [][/\ SaveGrades => (gpa' = gpa /\ cgpa' = cgpa)
       /\ \A s \in Students :
            (gpa'[s] # gpa[s] \/ cgpa'[s] # cgpa[s]) => UpdateStudentGpa(s)]_vars

\* Save Grades has just written a row for a student whose stored gpa is
\* not the rounded mean of its recorded grade points.
C11_Witness ==
    /\ lastOp.op = "save_grades"
    /\ \E s \in lastOp.inserted :
        /\ Len(grades[s]) >= 2
        /\ gpa[s] # Round2(AvgGp(grades[s]))
        /\ cgpa[s] = gpa[s]

\* C22: a step of update_student_gpa for a student that has no grade
\* records, or whose aggregate read fails, leaves the stored gpa and cgpa
\* of every student as they were; it writes no null or zero placeholder.
C22_NoPlaceholder ==
    [][(/\ lastOp'.op = "update_student_gpa"
        /\ \/ grades[lastOp'.student] = <<>>
           \/ lastOp'.outcome = "read_failed")
            => (gpa' = gpa /\ cgpa' = cgpa)]_vars

\* update_student_gpa has run, its read succeeding, for a student without
\* grade records, and the student's seeded gpa and cgpa are still stored.
C22_Witness ==
    /\ lastOp.op = "update_student_gpa"
    /\ lastOp.outcome = "ok"
    /\ grades[lastOp.student] = <<>>
    /\ gpa[lastOp.student] \in SeedGpas
    /\ cgpa[lastOp.student] \in SeedGpas

\* C28: in every reachable state each student's stored gpa equals its
\* stored cgpa: the seeding stores one draw in both and update_student_gpa
\* writes one value to both.
C28_GpaEqualsCgpa == \A s \in Students : gpa[s] = cgpa[s]

\* update_student_gpa has replaced a student's seeded gpa and cgpa by the
\* mean of its grade points.
C28_Witness ==
    /\ lastOp.op = "update_student_gpa"
    /\ lastOp.outcome = "ok"
    /\ gpa[lastOp.student] \notin SeedGpas
    /\ gpa[lastOp.student] = Round2(AvgGp(grades[lastOp.student]))
    /\ cgpa[lastOp.student] = gpa[lastOp.student]

(***************************************************************************)
(* Save Attendance (src/sxhool.py 126-133, 1180-1228)                      *)
(***************************************************************************)

\* The largest id an attendance row gets.
MaxAttId == 4

\* The rows that conflict with a new row under UNIQUE(student_id, date).
Conflicts(rows, s, d) == {r \in rows : r.student = s /\ r.date = d}

\* INSERT OR IGNORE: a conflicting row is kept and the new one dropped.
InsertOrIgnore(rows, id, s, d, st, by) ==
    IF Conflicts(rows, s, d) # {} THEN rows
    ELSE rows \cup {[id |-> id, student |-> s, date |-> d,
                     status |-> st, recorded_by |-> by]}

\* An insert into a table without the UNIQUE constraint.
InsertUnconstrained(rows, id, s, d, st, by) ==
    rows \cup {[id |-> id, student |-> s, date |-> d,
                status |-> st, recorded_by |-> by]}

\* An upsert that updates the row in conflict in place, under its id.
UpdateInPlace(rows, id, s, d, st, by) ==
    IF Conflicts(rows, s, d) = {}
    THEN rows \cup {[id |-> id, student |-> s, date |-> d,
                     status |-> st, recorded_by |-> by]}
    ELSE (rows \ Conflicts(rows, s, d))
            \cup {[r EXCEPT !.status = st, !.recorded_by = by] : r \in Conflicts(rows, s, d)}

\* INSERT OR REPLACE INTO attendance: the rows in conflict under
\* UNIQUE(student_id, date) are deleted, then the new row is inserted
\* under the next AUTOINCREMENT id.
InsertOrReplace(rows, id, s, d, st, by) ==
    (rows \ Conflicts(rows, s, d))
        \cup {[id |-> id, student |-> s, date |-> d,
               status |-> st, recorded_by |-> by]}

\* The rows the running Save Attendance handlers have yet to send.
RECURSIVE PendingRows(_)
PendingRows(ts) ==
    IF ts = {} THEN 0
    ELSE LET t == CHOOSE x \in ts : TRUE
         IN  (IF attPc[t] = 0 THEN 0 ELSE NumStudents + 1 - attPc[t])
                + PendingRows(ts \ {t})

\* show_faculty_attendance: the teacher picks a date and presses Save
\* Attendance; the handler starts on the first student.
AttSubmit(t) ==
    /\ attPc[t] = 0
    /\ attNextId + PendingRows(Teachers) + NumStudents <= MaxAttId + 1
    /\ \E d \in Dates : attDate' = [attDate EXCEPT ![t] = d]
    /\ attPc' = [attPc EXCEPT ![t] = 1]
    /\ UNCHANGED <<attendance, attNextId, attLast>>
    /\ UNCHANGED notAtt

\* One turn of the loop over attendance_data: db.execute of INSERT OR
\* REPLACE for the next student with the status selected for it; a failed
\* statement changes nothing and the loop goes on.
AttSaveRow(t) ==
    /\ attPc[t] \in 1..NumStudents
    /\ \E st \in Statuses, ok \in BOOLEAN :
        IF ok
        THEN /\ attendance' = InsertOrReplace(attendance, attNextId, attPc[t],
                                              attDate[t], st, t)
             /\ attNextId' = attNextId + 1
             /\ attLast' = [student |-> attPc[t], date |-> attDate[t],
                            status |-> st, recorded_by |-> t,
                            existed |-> Conflicts(attendance, attPc[t], attDate[t]) # {}]
        ELSE UNCHANGED <<attendance, attNextId, attLast>>
    /\ attPc' = [attPc EXCEPT ![t] = attPc[t] + 1]
    /\ UNCHANGED attDate
    /\ UNCHANGED notAtt

\* After the loop: st.success, and the handler is done.
AttSuccess(t) ==
    /\ attPc[t] = NumStudents + 1
    /\ attPc' = [attPc EXCEPT ![t] = 0]
    /\ attDate' = [attDate EXCEPT ![t] = 0]
    /\ UNCHANGED <<attendance, attNextId, attLast>>
    /\ UNCHANGED notAtt

AttInit ==
    /\ CalcIdle
    /\ PoolIdle
    /\ connectMayFail = FALSE
    /\ GpaQuiet
    /\ AttSeeded
    /\ PayQuiet
    /\ ReadIdle
    /\ PayrollQuiet
    /\ SubQuiet

AttNext ==
    \/ \E t \in Teachers : AttSubmit(t)
    \/ \E t \in Teachers : AttSaveRow(t)
    \/ \E t \in Teachers : AttSuccess(t)

SpecAtt == AttInit /\ [][AttNext]_vars

(***************************************************************************)
(* Claims about attendance                                                 *)
(***************************************************************************)

\* C8: in every reachable state the attendance table holds at most one
\* record for each (student_id, date) pair.
C8_OneRecordPerStudentDate ==
    \A s \in Students, d \in Dates : Cardinality(Conflicts(attendance, s, d)) <= 1

\* Two teachers are inside Save Attendance for the same date, each has
\* written a row of that date, and one of the rows replaced an earlier one.
C8_Witness ==
    /\ attPc[1] # 0 /\ attPc[2] # 0
    /\ attDate[1] = attDate[2]
    /\ \E r \in attendance : r.date = attDate[1] /\ r.recorded_by = 2
    /\ \E r \in attendance : r.date = attDate[1] /\ r.recorded_by = 1
    /\ attLast.student # 0 /\ attLast.existed

\* C9: a save for a (student, date) pair that already has a record
\* overwrites it: after the save has succeeded the pair has exactly one
\* record, and it carries the status and recorded_by of that save.
C9_SaveOverwrites ==
    attLast.student # 0 =>
        /\ Cardinality(Conflicts(attendance, attLast.student, attLast.date)) = 1
        /\ \A r \in Conflicts(attendance, attLast.student, attLast.date) :
            r.status = attLast.status /\ r.recorded_by = attLast.recorded_by

\* Teacher 2 has saved "Absent" for a pair that already had a record.
C9_Witness ==
    /\ attLast.student # 0
    /\ attLast.existed
    /\ attLast.recorded_by = 2
    /\ attLast.status = "Absent"
    /\ \E r \in attendance :
        /\ r.student = attLast.student /\ r.date = attLast.date
        /\ r.status = "Absent" /\ r.recorded_by = 2

\* The surrogate ids of a set of rows.
Ids(rows) == {r.id : r \in rows}

\* C17 as stated, for attendance (a table other than notices and
\* course_materials): a row that exists, identified by its id, exists in
\* every later state, also when its (student, date) is saved again.
C17_RowsPersist ==
    [][Ids(attendance) \subseteq Ids(attendance')]_vars

\* C17, amended: rows are removed from notices and course_materials, whose
\* DELETE statements are the only ones of the source, and from attendance
\* when a (student, date) that has a row is saved again.  For attendance:
\* a row that stays is not changed, a new row gets an id never used
\* before, and a row goes only in the step that stores a new row, with a
\* larger id, for the same student and date.
C17_RowsReplaced ==
    [][/\ \A r \in attendance : r.id \in Ids(attendance') => r \in attendance'
       /\ \A n \in attendance' \ attendance :
            /\ n.id = attNextId
            /\ \A r \in attendance : r.id < n.id
            /\ Conflicts(attendance, n.student, n.date) \cap attendance' = {}
       /\ \A r \in attendance \ attendance' :
            \E n \in attendance' \ attendance :
                n.student = r.student /\ n.date = r.date /\ n.id > r.id]_vars

\* A save has replaced the row of a seeded (student, date): an id given
\* out earlier is no longer in the table, and the pair still has its row.
C17_Witness ==
    /\ attLast.student # 0
    /\ attLast.existed
    /\ \E k \in 1..(attNextId - 1) : k \notin Ids(attendance)
    /\ Conflicts(attendance, attLast.student, attLast.date) # {}

(***************************************************************************)
(* Fee payment (src/sxhool.py 160-180, 319-320, 1791-1847, 2346-2366)      *)
(***************************************************************************)

\* The suffixes random.randint(1000, 9999) is drawn from here.
NumSuffixes == 2

Suffixes == 1000..(999 + NumSuffixes)

\* generate_receipt_number: "RCP", the date as %Y%m%d, a random suffix of
\* four digits.  The payments modelled are those of one day, whose
\* receipt numbers differ exactly when their suffixes do; a receipt
\* number of another day differs from all of them.
generate_receipt_number(suffix) == <<"RCP", suffix>>

\* A row of payments for an invoice under a receipt number; the id is the
\* next AUTOINCREMENT value, and no row of payments is ever deleted.
PaymentRow(rows, inv, receipt) ==
    [id |-> Cardinality(rows) + 1, invoice |-> inv, receipt |-> receipt]

\* Whether a receipt number is stored already: receipt_number TEXT UNIQUE.
ReceiptTaken(rows, receipt) == \E r \in rows : r.receipt = receipt

\* A payments table without the UNIQUE constraint on receipt_number.
InsertPaymentUnconstrained(rows, inv, receipt) ==
    rows \cup {PaymentRow(rows, inv, receipt)}

\* INSERT INTO payments: rejected when the receipt number is taken.
InsertPayment(rows, inv, receipt) ==
    IF ReceiptTaken(rows, receipt) THEN rows
    ELSE rows \cup {PaymentRow(rows, inv, receipt)}

\* A failed statement that leaves its row behind.
RaisedKeepsRow(rows, row) == rows \cup {row}

\* The table after a statement that raised: sqlite undoes the statement.
Raised(rows, row) == rows

\* A session submits the Pay Now form of an invoice the page listed, that
\* is, one the query of this run found with status 'Unpaid'.
PayStart(s) ==
    /\ running
    /\ payPc[s] = "idle"
    /\ invoices[InvoiceOf(s)] = "Unpaid"
    /\ payPc' = [payPc EXCEPT ![s] = "insert"]
    /\ payReceipt' = [payReceipt EXCEPT ![s] = <<>>]
    /\ payRet' = [payRet EXCEPT ![s] = "-"]
    /\ UNCHANGED <<running, invoices, payments>>
    /\ UNCHANGED notPay

\* A payment flow that writes the row and the status in one transaction.
PayInsertAtomic(s) ==
    /\ running
    /\ payPc[s] = "insert"
    /\ \E suffix \in Suffixes :
        LET receipt == generate_receipt_number(suffix)
        IN  /\ payReceipt' = [payReceipt EXCEPT ![s] = receipt]
            /\ IF ReceiptTaken(payments, receipt)
               THEN /\ payRet' = [payRet EXCEPT ![s] = "None"]
                    /\ UNCHANGED <<payments, invoices>>
               ELSE /\ payments' = InsertPayment(payments, InvoiceOf(s), receipt)
                    /\ invoices' = [invoices EXCEPT ![InvoiceOf(s)] = "Paid"]
                    /\ payRet' = [payRet EXCEPT ![s] = "lastrowid"]
    /\ payPc' = [payPc EXCEPT ![s] = "update"]
    /\ UNCHANGED running
    /\ UNCHANGED notPay

\* Pay Now, first statement: receipt_num = generate_receipt_number(), then
\* db.execute of the INSERT INTO payments.  The insert is rejected when the
\* receipt number is taken, and may raise for another reason; db.execute
\* then returns None, which the handler does not look at.
PayInsert(s) ==
    /\ running
    /\ payPc[s] = "insert"
    /\ \E suffix \in Suffixes :
        LET receipt == generate_receipt_number(suffix)
            row == PaymentRow(payments, InvoiceOf(s), receipt)
        IN  /\ payReceipt' = [payReceipt EXCEPT ![s] = receipt]
            /\ \/ /\ payments' = InsertPayment(payments, InvoiceOf(s), receipt)
                  /\ payRet' = [payRet EXCEPT ![s] =
                        IF ReceiptTaken(payments, receipt) THEN "None" ELSE "lastrowid"]
               \/ /\ payments' = Raised(payments, row)
                  /\ payRet' = [payRet EXCEPT ![s] = "None"]
    /\ payPc' = [payPc EXCEPT ![s] = "update"]
    /\ UNCHANGED <<running, invoices>>
    /\ UNCHANGED notPay

\* Pay Now, second statement: db.execute of UPDATE fee_invoices SET status
\* = 'Paid' for the invoice, whatever the insert returned.
PayUpdate(s) ==
    /\ running
    /\ payPc[s] = "update"
    /\ \/ /\ invoices' = [invoices EXCEPT ![InvoiceOf(s)] = "Paid"]
          /\ payRet' = [payRet EXCEPT ![s] = "lastrowid"]
       \/ /\ invoices' = invoices
          /\ payRet' = [payRet EXCEPT ![s] = "None"]
    /\ payPc' = [payPc EXCEPT ![s] = "success"]
    /\ UNCHANGED <<running, payments, payReceipt>>
    /\ UNCHANGED notPay

\* st.success with the receipt number, st.balloons, st.rerun: the handler
\* is done.
PaySuccess(s) ==
    /\ running
    /\ payPc[s] = "success"
    /\ payPc' = [payPc EXCEPT ![s] = "idle"]
    /\ payReceipt' = [payReceipt EXCEPT ![s] = <<>>]
    /\ payRet' = [payRet EXCEPT ![s] = "-"]
    /\ UNCHANGED <<running, invoices, payments>>
    /\ UNCHANGED notPay

\* The process stops (it is killed, or the machine goes down): the
\* handlers go no further and the database file stays as it is.
Stop ==
    /\ running
    /\ running' = FALSE
    /\ UNCHANGED <<invoices, payments, payPc, payReceipt, payRet>>
    /\ UNCHANGED notPay

PayInit ==
    /\ CalcIdle
    /\ PoolIdle
    /\ connectMayFail = FALSE
    /\ GpaQuiet
    /\ AttQuiet
    /\ PayQuiet
    /\ ReadIdle
    /\ PayrollQuiet
    /\ SubQuiet

PayNext ==
    \/ \E s \in Sessions : PayStart(s)
    \/ \E s \in Sessions : PayInsert(s)
    \/ \E s \in Sessions : PayUpdate(s)
    \/ \E s \in Sessions : PaySuccess(s)
    \/ Stop

SpecPay == PayInit /\ [][PayNext]_vars

(***************************************************************************)
(* Claims about db.execute and the fee payment                             *)
(***************************************************************************)

\* Session s has just had a db.execute return: it moved on from its INSERT
\* or from its UPDATE in this step.
Executed(s) ==
    \/ payPc[s] = "insert" /\ payPc'[s] = "update"
    \/ payPc[s] = "update" /\ payPc'[s] = "success"

\* C16: a failed write is a no-op: in a step in which db.execute returns
\* None because its statement raised, the persisted tables stay as they
\* were before the call.
C16_FailedWriteNoOp ==
    [][\A s \in Sessions :
        (Executed(s) /\ payRet'[s] = "None") =>
            (payments' = payments /\ invoices' = invoices)]_vars

\* An INSERT INTO payments has raised on an empty table, so not for a taken
\* receipt number, and the table is still empty.
C16_Witness ==
    /\ payments = {}
    /\ \E s \in Sessions : payPc[s] = "update" /\ payRet[s] = "None"

\* C18: no two payment rows share a receipt_number: when the number that
\* generate_receipt_number returned is stored already, the INSERT is
\* rejected, the payments table is unchanged and db.execute returns None.
C18_ReceiptUnique ==
    /\ [](\A p, q \in payments : p.receipt = q.receipt => p = q)
    /\ [][\A s \in Sessions :
            (/\ payPc[s] = "insert"
             /\ payPc'[s] = "update"
             /\ ReceiptTaken(payments, payReceipt'[s])) =>
                (payments' = payments /\ payRet'[s] = "None")]_vars

\* Two sessions drew the same receipt number: the row of one is stored,
\* the INSERT of the other returned None, and the table holds one row.
C18_Witness ==
    /\ Cardinality(payments) = 1
    /\ \E s, u \in Sessions :
        /\ s # u
        /\ payPc[s] = "update" /\ payRet[s] = "lastrowid"
        /\ payPc[u] = "update" /\ payRet[u] = "None"
        /\ payReceipt[s] = payReceipt[u]

\* C20: the payment flow is two statements committed one by one: the step
\* that stores the payment row leaves the invoice as it is, so while a
\* session is between its INSERT and its UPDATE the row is in the table
\* and the invoice changes only through the UPDATE of another session; and
\* a process that has stopped changes nothing any more, so stopping there
\* leaves a payment row for an invoice that is still 'Unpaid'.
C20_NotAtomic ==
    /\ [](\A s \in Sessions :
            (payPc[s] = "update" /\ payRet[s] = "lastrowid") =>
                \E r \in payments :
                    r.invoice = InvoiceOf(s) /\ r.receipt = payReceipt[s])
    /\ [][/\ \A s \in Sessions :
              (/\ payPc[s] \in {"insert", "update"}
               /\ payPc'[s] \in {"insert", "update"}
               /\ invoices'[InvoiceOf(s)] # invoices[InvoiceOf(s)]) =>
                  \E u \in Sessions \ {s} :
                      /\ InvoiceOf(u) = InvoiceOf(s)
                      /\ payPc[u] = "update" /\ payPc'[u] = "success"
          /\ ~running => (payments' = payments /\ invoices' = invoices)]_vars

\* The process has stopped with a session between its two statements: its
\* payment row is stored and its invoice is still 'Unpaid'.
C20_Witness ==
    /\ ~running
    /\ \E s \in Sessions :
        /\ payPc[s] = "update" /\ payRet[s] = "lastrowid"
        /\ invoices[InvoiceOf(s)] = "Unpaid"
        /\ \E r \in payments : r.invoice = InvoiceOf(s) /\ r.receipt = payReceipt[s]

\* The payment rows recorded for an invoice.
PaymentsOf(i) == {r \in payments : r.invoice = i}

\* C23: an invoice has status 'Paid' only if at least one payment row
\* references it, in every state the payment flows reach, also when the
\* INSERT INTO payments failed and db.execute returned None.
C23_PaidHasPayment ==
    \A i \in Invoices : invoices[i] = "Paid" => PaymentsOf(i) # {}

\* C24: an invoice is paid at most once: under any interleaving of the
\* payment flows of sessions that listed it while it was 'Unpaid', at most
\* one payment row is ever recorded for it.
C24_PaidOnce ==
    \A i \in Invoices : Cardinality(PaymentsOf(i)) <= 1

(***************************************************************************)
(* Callers of db.query (src/sxhool.py 261-269, 294-301, 322-330, 640-652,  *)
(* 1791-1797, 2097-2100)                                                   *)
(***************************************************************************)

\* The most rows a read matches.
MaxRows == 9

\* The amount of a seeded invoice, and so of a payment.
InvoiceAmount == 5000

\* Callers of db.query and the kind of statement each one sends:
\*   active_students  show_admin_dashboard, SELECT COUNT(*) ... [0]['cnt']
\*   revenue          show_admin_dashboard, SELECT COALESCE(SUM(amount), 0) ... [0]['total']
\*   unpaid_fees      the student dashboard, SELECT COUNT(*) ... [0]['cnt']
\*   avg_gp           update_student_gpa, SELECT AVG(grade_point)
\*   unpaid_invoices  show_parent_payments, SELECT * FROM fee_invoices ...
\*   authenticate     authenticate, SELECT * FROM users ...
Aggregates == {"active_students", "revenue", "unpaid_fees", "avg_gp"}

Callers == Aggregates \cup {"unpaid_invoices", "authenticate"}

\* The value an aggregate gives over n matching rows (every payment is of
\* one invoice amount, every grade point read is 3.0).
AggregateValue(caller, n) ==
    IF caller = "revenue" THEN InvoiceAmount * n
    ELSE IF caller = "avg_gp" THEN (IF n = 0 THEN "NULL" ELSE <<300 * n, n>>)
    ELSE n

\* db.query: [] when the statement raised; else fetchall(), which for an
\* aggregate is one row whatever the number of rows matched, and for a
\* plain SELECT the rows matched.
QueryResult(caller, n, failed) ==
    IF failed THEN <<>>
    ELSE IF caller \in Aggregates THEN <<AggregateValue(caller, n)>>
    ELSE [i \in 1..n |-> i]

\* What the caller goes on to do with the result.  The dashboards index
\* the first row without a test, and Python raises IndexError on []; the
\* others test the result first.
CallerDoes(caller, result) ==
    IF caller \in {"active_students", "revenue", "unpaid_fees"}
    THEN IF result = <<>> THEN [does |-> "IndexError", with |-> 0]
         ELSE [does |-> "st.metric", with |-> result[1]]
    ELSE IF caller = "avg_gp"
    THEN IF result # <<>> /\ Truthy(result[1])
         THEN [does |-> "UPDATE students", with |-> Round2(result[1])]
         ELSE [does |-> "nothing", with |-> 0]
    ELSE IF caller = "unpaid_invoices"
    THEN IF result # <<>> THEN [does |-> "payment forms", with |-> Len(result)]
         ELSE [does |-> "All fees are paid", with |-> 0]
    ELSE IF result # <<>> THEN [does |-> "return user", with |-> result[1]]
         ELSE [does |-> "return None", with |-> 0]

\* A caller reads: its statement matches n rows, or fails.
Read ==
    \E caller \in Callers, n \in 0..MaxRows, failed \in BOOLEAN :
        /\ rdIn' = [caller |-> caller, rows |-> n, failed |-> failed]
        /\ rdOut' = CallerDoes(caller, QueryResult(caller, n, failed))
        /\ UNCHANGED notRead

ReadInit ==
    /\ CalcIdle
    /\ PoolIdle
    /\ connectMayFail = FALSE
    /\ GpaQuiet
    /\ AttQuiet
    /\ PayQuiet
    /\ ReadIdle
    /\ PayrollQuiet
    /\ SubQuiet

ReadNext == Read

SpecRead == ReadInit /\ [][ReadNext]_vars

\* C15: for every caller of query, what the caller does when the statement
\* fails is what it does when the same statement succeeds and matches no
\* rows, also for the callers of aggregate queries that index the first
\* row of the result.
C15_FailedReadLikeNoRows ==
    (rdIn # <<>> /\ rdIn.failed) =>
        rdOut = CallerDoes(rdIn.caller, QueryResult(rdIn.caller, 0, FALSE))

(***************************************************************************)
(* Payroll (src/sxhool.py 195-206, 494-500, 862-917)                       *)
(***************************************************************************)

\* The most rows the payroll table gets.
MaxPayrollRows == 5

\* The rows of payroll for a staff member and the current month.
Existing(rows, st) == {r \in rows : r.staff = st /\ r.period = "now"}

\* INSERT INTO payroll for the current month; status defaults to
\* 'Pending', the id is the next AUTOINCREMENT value (no row of payroll is
\* ever deleted), and the table has no UNIQUE constraint.
InsertPayroll(rows, st) ==
    rows \cup {[id |-> Cardinality(rows) + 1, staff |-> st, period |-> "now",
                status |-> "Pending"]}

\* Where the loop over staff_members goes after staff member st.
NextStaff(st) ==
    IF st < NumTeachers THEN [pc |-> "check", staff |-> st + 1]
    ELSE [pc |-> "idle", staff |-> 0]

\* "Generate Payroll" pressed: staff_members is read and the loop starts.
GenStart(a) ==
    /\ gen[a].pc = "idle"
    /\ Cardinality(payroll) + NumTeachers <= MaxPayrollRows
    /\ gen' = [gen EXCEPT ![a] = [pc |-> "check", staff |-> 1]]
    /\ UNCHANGED payroll
    /\ UNCHANGED notPayroll

\* existing = db.query("SELECT id FROM payroll WHERE staff_id = ? AND month
\* = ? AND year = ?"): the rows stored, or [] when the read failed; on
\* `not existing` the handler goes on to the insert, else to the next
\* staff member.
GenCheck(a) ==
    /\ gen[a].pc = "check"
    /\ \E failed \in BOOLEAN :
        LET existing == IF failed THEN {} ELSE Existing(payroll, gen[a].staff)
        IN  gen' = [gen EXCEPT ![a] =
                        IF existing = {} THEN [pc |-> "insert", staff |-> gen[a].staff]
                        ELSE NextStaff(gen[a].staff)]
    /\ UNCHANGED payroll
    /\ UNCHANGED notPayroll

\* The salary is read (indexing [0] of a failed read raises IndexError
\* and ends the run), then db.execute of the INSERT INTO payroll, which
\* may fail and leave the table as it is.
GenInsert(a) ==
    /\ gen[a].pc = "insert"
    /\ \/ /\ payroll' = InsertPayroll(payroll, gen[a].staff)
          /\ gen' = [gen EXCEPT ![a] = NextStaff(gen[a].staff)]
       \/ /\ payroll' = Raised(payroll, <<>>)
          /\ gen' = [gen EXCEPT ![a] = NextStaff(gen[a].staff)]
       \/ /\ payroll' = payroll
          /\ gen' = [gen EXCEPT ![a] = [pc |-> "idle", staff |-> 0]]
    /\ UNCHANGED notPayroll

\* A salary payment that flips the status of a row either way.
SalaryPayToggle ==
    \E r \in payroll :
        /\ payroll' = (payroll \ {r}) \cup
                {[r EXCEPT !.status = IF r.status = "Paid" THEN "Pending" ELSE "Paid"]}
        /\ UNCHANGED gen
        /\ UNCHANGED notPayroll

\* "Pay Now" on a row the page listed (WHERE p.status = 'Pending'):
\* UPDATE payroll SET status = 'Paid' WHERE id = ?; a failed UPDATE leaves
\* the row as it is.
SalaryPayNow ==
    \E r \in payroll :
        /\ r.status = "Pending"
        /\ \/ payroll' = (payroll \ {r}) \cup {[r EXCEPT !.status = "Paid"]}
           \/ payroll' = Raised(payroll, r)
        /\ UNCHANGED gen
        /\ UNCHANGED notPayroll

PayrollInit ==
    /\ CalcIdle
    /\ PoolIdle
    /\ connectMayFail = FALSE
    /\ GpaQuiet
    /\ AttQuiet
    /\ PayQuiet
    /\ ReadIdle
    /\ PayrollQuiet
    /\ SubQuiet

PayrollNext ==
    \/ \E a \in Admins : GenStart(a)
    \/ \E a \in Admins : GenCheck(a)
    \/ \E a \in Admins : GenInsert(a)
    \/ SalaryPayNow

SpecPayroll == PayrollInit /\ [][PayrollNext]_vars

\* One fee session and one admin session: every statement of the fee
\* payment and of the payroll page, with no second session of either kind.
SoloNext ==
    \/ PayStart(1)
    \/ PayInsert(1)
    \/ PayUpdate(1)
    \/ PaySuccess(1)
    \/ GenStart(1)
    \/ GenCheck(1)
    \/ GenInsert(1)
    \/ SalaryPayNow

SpecSolo == PayrollInit /\ [][SoloNext]_vars

(***************************************************************************)
(* Claims about the payroll and the status flips                           *)
(***************************************************************************)

\* C25: Generate Payroll is idempotent within a month: once a run has
\* given every staff member its row for the month, pressing the button
\* again inserts no payroll row.
C25_GenerateIdempotent ==
    [][(\A st \in Staff : Existing(payroll, st) # {}) =>
            Ids(payroll') = Ids(payroll)]_vars

\* C26: under any interleaving of Generate Payroll runs of concurrent
\* admin sessions, payroll never holds two rows for the same (staff_id,
\* month, year).
C26_OneRowPerStaffMonth ==
    \A p, q \in payroll : (p.staff = q.staff /\ p.period = q.period) => p = q

\* C27: status flips are one-way: a fee invoice that is 'Paid' stays
\* 'Paid', and a payroll row that is 'Paid' stays in the table and stays
\* 'Paid', in every step of the application.
C27_OneWayFlips ==
    [][/\ \A i \in Invoices : invoices[i] = "Paid" => invoices'[i] = "Paid"
       /\ \A r \in payroll :
            r.status = "Paid" =>
                \E q \in payroll' : q.id = r.id /\ q.status = "Paid"]_vars

\* An invoice and a salary have been paid, and afterwards Generate Payroll
\* has added a row for the current month; both are still 'Paid'.
C27_Witness ==
    /\ invoices[InvoiceOf(1)] = "Paid"
    /\ payPc[1] = "idle"
    /\ \E r, q \in payroll :
        /\ r.status = "Paid"
        /\ q.period = "now" /\ q.id > r.id

(***************************************************************************)
(* Submit Assignment (src/sxhool.py 148-157, 2208-2244)                    *)
(***************************************************************************)

\* The student whose sessions these are.
TheStudent == 1

\* The submissions stored for an assignment.
SubmissionsOf(a) == {r \in submissions : r.assignment = a}

\* INSERT INTO assignment_submissions: the id is the next AUTOINCREMENT
\* value (no submission is ever deleted); the table has no UNIQUE
\* constraint.
InsertSubmission(rows, a) ==
    rows \cup {[id |-> Cardinality(rows) + 1, assignment |-> a, student |-> TheStudent]}

\* A session submits the form of an assignment the page listed as pending,
\* that is, one the query of this run found without a submission of the
\* student (a.id NOT IN (SELECT assignment_id ...)), with a text that is
\* not blank.
SubmitStart(s) ==
    /\ subPc[s] = 0
    /\ \E a \in Assignments :
        /\ SubmissionsOf(a) = {}
        /\ subPc' = [subPc EXCEPT ![s] = a]
    /\ UNCHANGED submissions
    /\ UNCHANGED notSub

\* db.execute of the INSERT INTO assignment_submissions, which may fail
\* and leave the table as it is; then st.success and st.rerun.
SubmitInsert(s) ==
    /\ subPc[s] # 0
    /\ \/ submissions' = InsertSubmission(submissions, subPc[s])
       \/ submissions' = Raised(submissions, <<>>)
    /\ subPc' = [subPc EXCEPT ![s] = 0]
    /\ UNCHANGED notSub

SubmitNext ==
    \/ \E s \in Sessions : SubmitStart(s)
    \/ \E s \in Sessions : SubmitInsert(s)

SpecSubmit == PayrollInit /\ [][SubmitNext]_vars

\* C30: a student has at most one submission per assignment: under any
\* interleaving of submit operations by sessions of the student that
\* listed the assignment as pending, assignment_submissions never holds
\* two rows with the same (assignment_id, student_id).
C30_OneSubmission ==
    \A p, q \in submissions :
        (p.assignment = q.assignment /\ p.student = q.student) => p = q

====
